---------------------------- MODULE Spec2Model ----------------------------
(***************************************************************************)
(* Chart loading and value coalescence of k8s.io/helm/pkg/chartutil and    *)
(* pkg/chart.                                                              *)
(*                                                                         *)
(* Six independent parts of the program are modelled, each with its own   *)
(* specification over its own variables:                                   *)
(*   SpecCoalesce  CoalesceValues over a chart tree and user overrides     *)
(*   SpecArchive   loadArchiveFiles reading the entries of a tar stream    *)
(*   SpecEntry     loadArchiveFiles reading regular entries of given names *)
(*   SpecLoad      LoadFilesWithEnvValues over a list of buffered files    *)
(*   SpecChart     AddDependency and SetDependencies over a set of charts  *)
(*   SpecValues    PathValue and the two MergeValues over values trees     *)
(* Spec is their disjoint union.                                           *)
(***************************************************************************)
EXTENDS Integers, Sequences, FiniteSets, TLC

VARIABLES
    cpc,      \* coalescer: "idle" | "ready" | "done" | "again" | "nil"
    chrt,     \* coalescer: the *chart.Chart handed to CoalesceValues
    vals,     \* coalescer: the *chart.Config handed to CoalesceValues
    res,      \* coalescer: what CoalesceValues returned
    res2,     \* coalescer: what the second call of CoalesceValues returned
    apc,      \* archive reader: "idle" | "reading" | "returned"
    files,    \* archive reader: the files slice of loadArchiveFiles
    nread,    \* archive reader: number of headers read from the stream
    aerr,     \* archive reader: the error returned ("" for none)
    hdrs,     \* archive reader: the headers of the stream, where they are given
    lpc,      \* loader: "idle" | "ready" | "done" | "again"
    lfiles,   \* loader: the []*BufferedFile handed to LoadFilesWithEnvValues
    lenv,     \* loader: the envValuesFile argument
    lres,     \* loader: what LoadFilesWithEnvValues returned
    lres2,    \* loader: what it returned for the same files once more
    chartParent,  \* chart tree: the parent field of every chart.Chart
    chartDeps,    \* chart tree: the dependencies field of every chart.Chart
    vpc,      \* values primitives: "idle" | "ready" | "done"
    vargs,    \* values primitives: the operation called and its arguments
    vret      \* values primitives: what the operation returned

coVars == <<cpc, chrt, vals, res, res2>>
arVars == <<apc, files, nread, aerr, hdrs>>
ldVars == <<lpc, lfiles, lenv, lres, lres2>>
chVars == <<chartParent, chartDeps>>
prVars == <<vpc, vargs, vret>>
vars ==
    <<cpc, chrt, vals, res, res2, apc, files, nread, aerr, hdrs, lpc, lfiles, lenv, lres, lres2,
      chartParent, chartDeps, vpc, vargs, vret>>

(***************************************************************************)
(* Values trees.  A value held in an interface{} is nil, a scalar (or a    *)
(* sequence, which the code treats the same way), a map[string]interface{} *)
(* (possibly the nil map), or a map of the named type Values.              *)
(***************************************************************************)
GlobalKey == "global"

Null == [t |-> "null"]
Scalar(v) == [t |-> "scalar", s |-> v]
Table(f) == [t |-> "msi", m |-> f, isnil |-> FALSE]
NilTable == [t |-> "msi", m |-> <<>>, isnil |-> TRUE]
ValuesMap(f) == [t |-> "Values", m |-> f, isnil |-> FALSE]
EmptyTable == Table(<<>>)

\* v.(map[string]interface{}) succeeds
istable(v) == v.t = "msi"

\* _, ok := m[k]
Has(m, k) == k \in DOMAIN m.m

\* m[k] = v on a non-nil map
Put(m, k, v) == [m EXCEPT !.m = (k :> v) @@ m.m]

\* Values.AsMap
AsMap(v) == IF v.isnil \/ DOMAIN v.m = {} THEN EmptyTable ELSE v

(***************************************************************************)
(* YAML text.  A text is empty, unparseable, or the encoding of a document *)
(* tree.  Encoding writes a nil map as null and forgets the Go map type.   *)
(***************************************************************************)
EmptyText == [txt |-> "empty"]
BadText == [txt |-> "bad"]
YamlText(doc) == [txt |-> "yaml", doc |-> doc]

RECURSIVE Marshal(_)
Marshal(v) ==
    IF v.t \in {"msi", "Values"}
    THEN IF v.isnil THEN Null
         ELSE Table([k \in DOMAIN v.m |-> Marshal(v.m[k])])
    ELSE v

\* Values.YAML, followed by the strings.TrimSpace of its callers
YAML(v) == YamlText(Marshal(v))

\* ReadValues
ReadValues(data) ==
    IF data.txt = "bad" THEN [vals |-> EmptyTable, err |-> TRUE]
    ELSE IF data.txt = "empty" THEN [vals |-> EmptyTable, err |-> FALSE]
    ELSE IF data.doc.t = "msi" /\ DOMAIN data.doc.m # {}
         THEN [vals |-> data.doc, err |-> FALSE]
         ELSE [vals |-> EmptyTable, err |-> FALSE]

\* *chart.Config
NilConfig == [isnil |-> TRUE, Raw |-> EmptyText]
Config(raw) == [isnil |-> FALSE, Raw |-> raw]

\* *chart.Chart, as far as coalescence reads it
Chart(name, values, deps) == [name |-> name, values |-> values, deps |-> deps]

(***************************************************************************)
(* Coalescence.  A call returns the map and an error, or panics.           *)
(***************************************************************************)
Ok(v) == [status |-> "ok", vals |-> v, err |-> ""]
Err(v, e) == [status |-> "error", vals |-> v, err |-> e]
Panic == [status |-> "panic", vals |-> Null, err |-> "assignment to entry in nil map"]

RECURSIVE coalesceTables(_, _)
coalesceTables(dst, src) ==
    LET kept == {k \in DOMAIN src.m \cup DOMAIN dst.m :
                    IF k \in DOMAIN dst.m THEN dst.m[k] # Null ELSE TRUE}
    IN  Table([k \in kept |->
            IF k \notin DOMAIN dst.m THEN src.m[k]
            ELSE IF k \in DOMAIN src.m /\ istable(src.m[k]) /\ istable(dst.m[k])
                 THEN coalesceTables(dst.m[k], src.m[k])
                 ELSE dst.m[k]])

coalesceGlobals(dest, src) ==
    IF Has(dest, GlobalKey) /\ ~istable(dest.m[GlobalKey]) THEN NilTable
    ELSE LET dg == IF Has(dest, GlobalKey) THEN dest.m[GlobalKey] ELSE EmptyTable
         IN  IF Has(src, GlobalKey) /\ ~istable(src.m[GlobalKey]) THEN dg
             ELSE LET sg == IF Has(src, GlobalKey) THEN src.m[GlobalKey]
                                                   ELSE EmptyTable
                  IN  Put(Table(dest.m), GlobalKey, coalesceTables(sg, dg))

coalesceValues(c, v) ==
    IF c.values.isnil \/ c.values.Raw = EmptyText THEN Ok(v)
    ELSE LET nv == ReadValues(c.values.Raw)
         IN  IF nv.err THEN Err(v, "Error: Reading chart default values")
             ELSE Ok(coalesceTables(v, AsMap(nv.vals)))

RECURSIVE coalesce(_, _)
RECURSIVE coalesceDepsFrom(_, _, _)

\* the loop of coalesceDeps from its i-th dependency on
coalesceDepsFrom(c, dest, i) ==
    IF i > Len(c.deps) THEN Ok(dest)
    ELSE LET subchart == c.deps[i]
             n == subchart.name
         IN  IF ~Has(dest, n) /\ dest.isnil THEN Panic
             ELSE IF Has(dest, n) /\ ~istable(dest.m[n])
                  THEN Err(dest, "type mismatch on " \o n)
             ELSE LET d1 == IF Has(dest, n) THEN dest ELSE Put(dest, n, EmptyTable)
                      dvmap == coalesceGlobals(d1.m[n], d1)
                      r == coalesce(subchart, dvmap)
                  IN  IF r.status = "panic" THEN Panic
                      ELSE IF r.status = "error" THEN Err(Put(d1, n, r.vals), r.err)
                      ELSE coalesceDepsFrom(c, Put(d1, n, r.vals), i + 1)

coalesceDeps(c, dest) == coalesceDepsFrom(c, dest, 1)

coalesce(ch, dest) ==
    LET r == coalesceValues(ch, dest)
    IN  IF r.status = "error" THEN r ELSE coalesceDeps(ch, r.vals)

CoalesceValues(c, v) ==
    IF ~v.isnil
    THEN LET evals == ReadValues(v.Raw)
         IN  IF evals.err THEN Err(EmptyTable, "yaml") ELSE coalesce(c, evals.vals)
    ELSE coalesceDeps(c, EmptyTable)


(***************************************************************************)
(* Inputs of the coalescer.  A chart tree root -> sub -> subsub and the    *)
(* user overrides are assembled from at most MaxEntries settings, each a   *)
(* (layer, path, value) triple; a layer's settings never overlap.  Each    *)
(* layer writes its own scalar, so a value in the result names the layer   *)
(* it came from.                                                           *)
(***************************************************************************)
MaxEntries == 3

RootName == "root"
SubName == "sub"
SubSubName == "subsub"

LayerScalar(layer) ==
    CASE layer = "user" -> Scalar(1)
      [] layer = "root" -> Scalar(2)
      [] layer = "sub" -> Scalar(3)
      [] layer = "subsub" -> Scalar(4)

\* marks for a layer as a whole (the path is <<>>)
MarkNil == [t |-> "nilconfig"]
MarkBad == [t |-> "badtext"]
MarkEmptyDoc == [t |-> "emptydoc"]

OuterPaths ==
    { <<"k">>, <<GlobalKey>>, <<GlobalKey, "g">>, <<SubName>>, <<SubName, "k">>,
      <<SubName, GlobalKey>>, <<SubName, GlobalKey, "g">>, <<SubName, SubSubName>> }
SubPaths == { <<"k">>, <<GlobalKey>>, <<GlobalKey, "g">>, <<SubSubName>> }
SubSubPaths == { <<"k">>, <<GlobalKey, "g">> }

LayerPaths(layer) ==
    CASE layer \in {"user", "root"} -> OuterPaths
      [] layer = "sub" -> SubPaths
      [] layer = "subsub" -> SubSubPaths

LayerMarks(layer) ==
    CASE layer = "user" -> {MarkNil, MarkBad}
      [] layer = "root" -> {MarkEmptyDoc, MarkBad}
      [] layer = "sub" -> {MarkNil, MarkEmptyDoc, MarkBad}
      [] layer = "subsub" -> {MarkNil}

Layers == {"user", "root", "sub", "subsub"}

Settings ==
    UNION { ({l} \X LayerPaths(l) \X {Null, LayerScalar(l), EmptyTable})
            \cup ({l} \X {<<>>} \X LayerMarks(l)) : l \in Layers }

IsPrefix(p, q) == Len(p) <= Len(q) /\ SubSeq(q, 1, Len(p)) = p

Overlap(e, f) == e[1] = f[1] /\ (IsPrefix(e[2], f[2]) \/ IsPrefix(f[2], e[2]))

RECURSIVE Combos(_)
Combos(n) ==
    IF n = 0 THEN {{}}
    ELSE LET prev == Combos(n - 1)
         IN  prev \cup { c \cup {e} : <<c, e>> \in
                           { ce \in prev \X Settings :
                               \A f \in ce[1] : ~Overlap(ce[2], f) } }

RECURSIVE Insert(_, _, _)
Insert(tree, path, val) ==
    IF Len(path) = 1 THEN Put(tree, path[1], val)
    ELSE LET child == IF Has(tree, path[1]) THEN tree.m[path[1]] ELSE EmptyTable
         IN  Put(tree, path[1], Insert(child, Tail(path), val))

RECURSIVE BuildTree(_)
BuildTree(es) ==
    IF es = {} THEN EmptyTable
    ELSE LET e == CHOOSE x \in es : TRUE
         IN  Insert(BuildTree(es \ {e}), e[2], e[3])

Of(es, layer) == { e \in es : e[1] = layer }

\* the Config a layer's settings stand for; unset stands for `none`
LayerConfig(mine, none) ==
    IF mine = {} THEN none
    ELSE IF \E e \in mine : e[3] = MarkNil THEN NilConfig
    ELSE IF \E e \in mine : e[3] = MarkBad THEN Config(BadText)
    ELSE IF \E e \in mine : e[3] = MarkEmptyDoc THEN Config(YamlText(EmptyTable))
    ELSE Config(YamlText(BuildTree(mine)))

ChartOf(es) ==
    LET subsub == Chart(SubSubName, LayerConfig(Of(es, "subsub"), NilConfig), <<>>)
        sub == Chart(SubName, LayerConfig(Of(es, "sub"), NilConfig),
                     IF Of(es, "subsub") = {} THEN <<>> ELSE <<subsub>>)
    IN  Chart(RootName, LayerConfig(Of(es, "root"), NilConfig),
              IF Of(es, "sub") \cup Of(es, "subsub") = {} THEN <<>> ELSE <<sub>>)

ConfigOf(es) == LayerConfig(Of(es, "user"), Config(EmptyText))

\* the charts of the chart tree, and the nil *Chart
Charts == {"a", "b", "c"}
NoChart == "nil"
ChartsIdle ==
    chartParent = [c \in Charts |-> NoChart] /\ chartDeps = [c \in Charts |-> <<>>]

PrimitivesIdle == vpc = "idle" /\ vargs = [t |-> "null"] /\ vret = [t |-> "null"]
NoHeaders == <<>>
ArchiveIdle ==
    apc = "idle" /\ files = <<>> /\ nread = 0 /\ aerr = "" /\ hdrs = NoHeaders
LoaderIdle ==
    lpc = "idle" /\ lfiles = <<>> /\ lenv = <<>> /\ lres = Null /\ lres2 = Null
CoalescerIdle ==
    cpc = "idle" /\ chrt = Null /\ vals = Null /\ res = Null /\ res2 = Null

InitCoalesce ==
    /\ \E es \in Combos(MaxEntries) : chrt = ChartOf(es) /\ vals = ConfigOf(es)
    /\ cpc = "ready" /\ res = Null /\ res2 = Null
    /\ ArchiveIdle /\ LoaderIdle /\ ChartsIdle /\ PrimitivesIdle

\* a caller runs CoalesceValues(chrt, vals)
DoCoalesceValues ==
    /\ cpc = "ready"
    /\ res' = CoalesceValues(chrt, vals)
    /\ cpc' = "done"
    /\ UNCHANGED <<chrt, vals, res2, arVars, ldVars, chVars, prVars>>

\* the caller encodes the returned values and runs CoalesceValues over them
DoCoalesceAgain ==
    /\ cpc = "done" /\ res.status = "ok"
    /\ res2' = CoalesceValues(chrt, Config(YAML(res.vals)))
    /\ cpc' = "again"
    /\ UNCHANGED <<chrt, vals, res, arVars, ldVars, chVars, prVars>>

\* the caller, who passed overrides with an empty text, runs
\* CoalesceValues(chrt, nil)
DoCoalesceNil ==
    /\ cpc = "done" /\ vals = Config(EmptyText)
    /\ res2' = CoalesceValues(chrt, NilConfig)
    /\ cpc' = "nil"
    /\ UNCHANGED <<chrt, vals, res, arVars, ldVars, chVars, prVars>>

NextCoalesce == DoCoalesceValues \/ DoCoalesceAgain \/ DoCoalesceNil

SpecCoalesce == InitCoalesce /\ [][NextCoalesce]_vars


(***************************************************************************)
(* Strings.  A string is a sequence of one-character strings, so that the  *)
(* functions of package strings and package path work on characters.       *)
(***************************************************************************)
Letters ==
    { "a", "b", "c", "d", "e", "f", "g", "h", "i", "j", "k", "l", "m",
      "n", "o", "p", "q", "r", "s", "t", "u", "v", "w", "x", "y", "z",
      "A", "B", "C", "D", "E", "F", "G", "H", "I", "J", "K", "L", "M",
      "N", "O", "P", "Q", "R", "S", "T", "U", "V", "W", "X", "Y", "Z" }

\* strings.ContainsRune
ContainsRune(s, c) == \E i \in 1..Len(s) : s[i] = c

\* strings.HasPrefix
HasPrefix(s, prefix) == Len(prefix) <= Len(s) /\ SubSeq(s, 1, Len(prefix)) = prefix

\* strings.Split, for a separator of one character
RECURSIVE Split(_, _)
Split(s, sep) ==
    IF ~ContainsRune(s, sep) THEN <<s>>
    ELSE LET i == CHOOSE j \in 1..Len(s) :
                      s[j] = sep /\ \A k \in 1..(j - 1) : s[k] # sep
         IN  <<SubSeq(s, 1, i - 1)>> \o Split(SubSeq(s, i + 1, Len(s)), sep)

\* strings.Join
RECURSIVE Join(_, _)
Join(a, sep) ==
    IF a = <<>> THEN <<>>
    ELSE IF Len(a) = 1 THEN a[1]
    ELSE a[1] \o <<sep>> \o Join(Tail(a), sep)

\* strings.Replace(s, old, new, -1), old and new of one character
Replace(s, old, new) == [i \in 1..Len(s) |-> IF s[i] = old THEN new ELSE s[i]]

\* path.IsAbs
IsAbs(p) == Len(p) > 0 /\ p[1] = "/"

DotDot == <<".", ".">>

\* the loop of path.Clean over the elements of the path; out holds the
\* elements written so far
RECURSIVE CleanElems(_, _, _)
CleanElems(elems, out, rooted) ==
    IF elems = <<>> THEN out
    ELSE LET e == Head(elems)
             rest == Tail(elems)
         IN  IF e = <<>> \/ e = <<".">> THEN CleanElems(rest, out, rooted)
             ELSE IF e = DotDot
                  THEN IF out # <<>> /\ out[Len(out)] # DotDot
                       THEN CleanElems(rest, SubSeq(out, 1, Len(out) - 1), rooted)
                       ELSE IF rooted THEN CleanElems(rest, out, rooted)
                       ELSE CleanElems(rest, Append(out, e), rooted)
             ELSE CleanElems(rest, Append(out, e), rooted)

\* path.Clean
Clean(p) ==
    IF p = <<>> THEN <<".">>
    ELSE LET rooted == IsAbs(p)
             body == Join(CleanElems(Split(p, "/"), <<>>, rooted), "/")
         IN  IF rooted THEN <<"/">> \o body
             ELSE IF body = <<>> THEN <<".">>
             ELSE body

\* drivePathPattern.MatchString
drivePathPattern(s) == Len(s) >= 3 /\ s[1] \in Letters /\ s[2] = ":" /\ s[3] = "/"

ChartfileName == <<"C", "h", "a", "r", "t", ".", "y", "a", "m", "l">>

(***************************************************************************)
(* The archive reader.  loadArchiveFiles reads one tar header after the    *)
(* other; the name of a regular entry goes through the checks of the loop  *)
(* body, which reject the archive or give the name of the buffered file.   *)
(***************************************************************************)
ErrAbsolute == "chart illegally contains absolute paths"
ErrOutside == "chart illegally contains content outside the base directory"
ErrParent == "chart illegally references parent directory"
ErrDrive == "chart contains illegally named files"
ErrChartfile == "chart yaml not in base directory"
ErrNoFiles == "no files in chart archive"
ErrTar == "tar: invalid header"

\* the delimiter the loop body works with
delimiterOf(name) == IF ContainsRune(name, "\\") THEN "\\" ELSE "/"

\* the entry name without its first part, normalized to the / delimiter
normalized(name) ==
    LET delimiter == delimiterOf(name)
        parts == Split(name, delimiter)
    IN  Replace(Join(Tail(parts), delimiter), delimiter, "/")

\* checkName without its check for the parent directory
checkNameNoParent(name) ==
    LET parts == Split(name, delimiterOf(name))
        n == Clean(normalized(name))
    IN  IF IsAbs(normalized(name)) THEN [err |-> ErrAbsolute, n |-> n]
        ELSE IF n = <<".">> THEN [err |-> ErrOutside, n |-> n]
        ELSE IF drivePathPattern(n) THEN [err |-> ErrDrive, n |-> n]
        ELSE IF parts[1] = ChartfileName THEN [err |-> ErrChartfile, n |-> n]
        ELSE [err |-> "", n |-> n]

\* the checks of the loop body on the name of a regular entry: the error
\* returned ("" for none) and the name n of the buffered file
checkName(name) ==
    LET parts == Split(name, delimiterOf(name))
        n == Clean(normalized(name))
    IN  IF IsAbs(normalized(name)) THEN [err |-> ErrAbsolute, n |-> n]
        ELSE IF n = <<".">> THEN [err |-> ErrOutside, n |-> n]
        ELSE IF HasPrefix(n, DotDot) THEN [err |-> ErrParent, n |-> n]
        ELSE IF drivePathPattern(n) THEN [err |-> ErrDrive, n |-> n]
        ELSE IF parts[1] = ChartfileName THEN [err |-> ErrChartfile, n |-> n]
        ELSE [err |-> "", n |-> n]

\* Entry names: up to MaxSegs segments joined by / or \ .
MaxSegs == 3
MaxFiles == 2
MaxHeaders == 3

Segments ==
    { <<>>, <<".">>, DotDot, <<"c", ":">>, <<"a", ".", ".", "b">>, ChartfileName }
Delimiters == {"/", "\\"}

RECURSIVE NamesOf(_)
NamesOf(n) ==
    IF n = 1 THEN Segments
    ELSE LET shorter == NamesOf(n - 1)
         IN  shorter \cup { p \o <<d>> \o s : p \in shorter, d \in Delimiters, s \in Segments }

EntryNames == NamesOf(MaxSegs)

\* what the checks of the loop body may give for an entry name
Outcomes == { checkName(name) : name \in EntryNames }

InitArchive ==
    /\ apc = "reading" /\ files = <<>> /\ nread = 0 /\ aerr = "" /\ hdrs = NoHeaders
    /\ CoalescerIdle /\ LoaderIdle /\ ChartsIdle /\ PrimitivesIdle

\* a directory header handled as a regular entry would be
ReadDirectoryAsFile ==
    /\ apc = "reading" /\ nread < MaxHeaders /\ Len(files) < MaxFiles
    /\ nread' = nread + 1
    /\ files' = Append(files, <<"d">>)
    /\ UNCHANGED <<apc, aerr, hdrs, coVars, ldVars, chVars, prVars>>

\* tr.Next returns the header of a directory: continue
ReadDirectory ==
    /\ apc = "reading" /\ nread < MaxHeaders
    /\ nread' = nread + 1
    /\ UNCHANGED <<apc, files, aerr, hdrs, coVars, ldVars, chVars, prVars>>

\* tr.Next returns a PAX global or extended header: continue
ReadPaxHeader ==
    /\ apc = "reading" /\ nread < MaxHeaders
    /\ nread' = nread + 1
    /\ UNCHANGED <<apc, files, aerr, hdrs, coVars, ldVars, chVars, prVars>>

\* the loop body on a regular entry whose name the checks gave this for
readEntry(checked) ==
    /\ nread' = nread + 1
    /\ IF checked.err # ""
       THEN apc' = "returned" /\ files' = <<>> /\ aerr' = checked.err
       ELSE apc' = apc /\ files' = Append(files, checked.n) /\ aerr' = aerr

\* tr.Next returns the header of a regular entry
ReadEntry ==
    /\ apc = "reading" /\ nread < MaxHeaders /\ Len(files) < MaxFiles
    /\ \E checked \in Outcomes : readEntry(checked)
    /\ UNCHANGED <<hdrs, coVars, ldVars, chVars, prVars>>

\* tr.Next fails with an error other than io.EOF
ReadFails ==
    /\ apc = "reading"
    /\ apc' = "returned" /\ files' = <<>> /\ aerr' = ErrTar
    /\ UNCHANGED <<nread, hdrs, coVars, ldVars, chVars, prVars>>

\* tr.Next returns io.EOF
ReadEOF ==
    /\ apc = "reading"
    /\ apc' = "returned"
    /\ IF Len(files) = 0 THEN aerr' = ErrNoFiles ELSE aerr' = ""
    /\ UNCHANGED <<files, nread, hdrs, coVars, ldVars, chVars, prVars>>

NextArchive == ReadDirectory \/ ReadPaxHeader \/ ReadEntry \/ ReadFails \/ ReadEOF

SpecArchive == InitArchive /\ [][NextArchive]_vars

(***************************************************************************)
(* The archive reader on a stream of regular entries whose names are       *)
(* given: one entry of any name, alone or after an entry that is accepted. *)
(***************************************************************************)
Header(name) == [Name |-> name]

GoodName == <<"a", ".", ".", "b", "/", "a", ".", ".", "b">>

InitEntry ==
    /\ apc = "reading" /\ files = <<>> /\ nread = 0 /\ aerr = ""
    /\ \E name \in EntryNames :
          hdrs \in {<<Header(name)>>, <<Header(GoodName), Header(name)>>}
    /\ CoalescerIdle /\ LoaderIdle /\ ChartsIdle /\ PrimitivesIdle

\* tr.Next returns the next header of the stream
ReadHeader ==
    /\ apc = "reading" /\ nread < Len(hdrs)
    /\ readEntry(checkName(hdrs[nread + 1].Name))
    /\ UNCHANGED <<hdrs, coVars, ldVars, chVars, prVars>>

NextEntry == ReadHeader

SpecEntry == InitEntry /\ [][NextEntry]_vars


(***************************************************************************)
(* The loader.  LoadFilesWithEnvValues classifies a list of buffered files *)
(* and loads the nested charts it collected.  The data of a file is kept   *)
(* as what its bytes decode to.                                            *)
(***************************************************************************)
ValuesYamlName == <<"v", "a", "l", "u", "e", "s", ".", "y", "a", "m", "l">>
ValuesTomlName == <<"v", "a", "l", "u", "e", "s", ".", "t", "o", "m", "l">>
TemplatesPrefix == <<"t", "e", "m", "p", "l", "a", "t", "e", "s", "/">>
ChartsPrefix == <<"c", "h", "a", "r", "t", "s", "/">>
ProvExt == <<".", "p", "r", "o", "v">>
TgzExt == <<".", "t", "g", "z">>
ApiVersionV1 == "v1"

\* filepath.Ext
Ext(p) ==
    LET dots == {i \in 1..Len(p) :
                    p[i] = "." /\ \A j \in (i + 1)..Len(p) : p[j] \notin {".", "/"}}
    IN  IF dots = {} THEN <<>>
        ELSE LET i == CHOOSE d \in dots : TRUE IN SubSeq(p, i, Len(p))

\* strings.TrimPrefix
TrimPrefix(s, prefix) ==
    IF HasPrefix(s, prefix) THEN SubSeq(s, Len(prefix) + 1, Len(s)) ELSE s

\* strings.IndexAny(s, "._") == 0
StartsHidden(s) == Len(s) > 0 /\ s[1] \in {".", "_"}

\* strings.SplitN(s, "/", 2)
SplitN2(s) ==
    IF ~ContainsRune(s, "/") THEN <<s>>
    ELSE LET parts == Split(s, "/")
         IN  <<parts[1], Join(Tail(parts), "/")>>

\* the bytes of a file, as what they decode to
MetaData(name, apiVersion) == [kind |-> "meta", Name |-> name, ApiVersion |-> apiVersion]
YamlData(text) == [kind |-> "yaml", text |-> text]
ArchiveData(err, entries) == [kind |-> "archive", err |-> err, files |-> entries]
PlainData == [kind |-> "bytes"]

BufferedFile(name, data) == [Name |-> name, Data |-> data]

\* UnmarshalChartfile
UnmarshalChartfile(data) ==
    IF data.kind = "meta" THEN [err |-> FALSE, m |-> data]
    ELSE [err |-> TRUE, m |-> Null]

\* yaml.Unmarshal(f.Data, &values): the keys of a mapping document are
\* decoded into the map, nested mappings as map[string]interface{}; an error
\* is dropped and leaves the map as it was
Unmarshal(data, into) ==
    IF data.kind = "yaml" /\ data.text.txt = "yaml" /\ data.text.doc.t = "msi"
    THEN [into EXCEPT !.m = data.text.doc.m @@ into.m]
    ELSE into

\* a merge in which the destination wins for the keys both maps hold
MergeValuesKeepDest(dest, src) ==
    [dest EXCEPT !.m =
        [k \in DOMAIN dest.m \cup DOMAIN src.m |->
            IF k \in DOMAIN dest.m THEN dest.m[k] ELSE src.m[k]]]

\* chartutil.MergeValues
RECURSIVE MergeValues(_, _)
MergeValues(dest, src) ==
    [dest EXCEPT !.m =
        [k \in DOMAIN dest.m \cup DOMAIN src.m |->
            IF k \notin DOMAIN src.m THEN dest.m[k]
            ELSE IF k \notin DOMAIN dest.m THEN src.m[k]
            ELSE IF src.m[k].t # "Values" THEN src.m[k]
            ELSE IF dest.m[k].t # "Values" THEN src.m[k]
            ELSE MergeValues(dest.m[k], src.m[k])]]

\* errors of the loader
NoError == [msg |-> ""]
Error(msg) == [msg |-> msg]
ErrUnpacking(n, parent, cause) ==
    [msg |-> "error unpacking %s in %s: %s", sub |-> n, parent |-> parent, cause |-> cause]
ErrUnpackingTar(parent, n, got) ==
    [msg |-> "error unpacking tar in %s: expected %s, got %s",
     parent |-> parent, sub |-> n, got |-> got]

\* &chart.Chart{}
NoMetadata == [kind |-> "nil"]
EmptyChart ==
    [Metadata |-> NoMetadata, Values |-> NilConfig, Templates |-> <<>>,
     Files |-> <<>>, Dependencies |-> <<>>]

\* an element put before those of the slice
prepend(slice, f) == <<f>> \o slice

\* append(c.Templates, ...) and append(c.Files, ...)
append(slice, f) == Append(slice, f)

ErrApiVersion == Error("apiVersion is not valid. The value must be \"v1\"")

\* no apiVersion is refused
invalidApiVersionNever(apiVersion) == FALSE

\* apiVersion != "" && apiVersion != ApiVersionV1
invalidApiVersion(apiVersion) == apiVersion # "" /\ apiVersion # ApiVersionV1

\* the classification loop from the i-th file on; st holds the chart, the
\* subcharts map, values and environment, and the error of an early return
RECURSIVE classifyFrom(_, _, _, _)
classifyFrom(fs, envValuesFile, i, st) ==
    IF i > Len(fs) THEN st
    ELSE LET f == fs[i]
             continue(next) == classifyFrom(fs, envValuesFile, i + 1, next)
         IN  IF f.Name = ChartfileName
             THEN LET u == UnmarshalChartfile(f.Data)
                  IN  IF u.err THEN [st EXCEPT !.err = Error("error unmarshaling Chart.yaml")]
                      ELSE IF invalidApiVersion(u.m.ApiVersion)
                      THEN [st EXCEPT !.c.Metadata = u.m, !.err = ErrApiVersion]
                      ELSE continue([st EXCEPT !.c.Metadata = u.m])
             ELSE IF f.Name = ValuesTomlName
             THEN [st EXCEPT !.err = Error("values.toml is illegal as of 2.0.0-alpha.2")]
             ELSE IF f.Name = ValuesYamlName
             THEN continue([st EXCEPT !.values = Unmarshal(f.Data, @)])
             ELSE IF f.Name = envValuesFile
             THEN continue([st EXCEPT !.environment = Unmarshal(f.Data, @)])
             ELSE IF HasPrefix(f.Name, TemplatesPrefix)
             THEN continue([st EXCEPT !.c.Templates = append(@, f)])
             ELSE IF HasPrefix(f.Name, ChartsPrefix)
             THEN IF Ext(f.Name) = ProvExt
                  THEN continue([st EXCEPT !.c.Files = append(@, f)])
                  ELSE LET cname == TrimPrefix(f.Name, ChartsPrefix)
                           scname == SplitN2(cname)[1]
                           sofar == IF scname \in DOMAIN st.subcharts
                                    THEN st.subcharts[scname] ELSE <<>>
                       IN  IF StartsHidden(cname) THEN continue(st)
                           ELSE continue([st EXCEPT !.subcharts =
                                    (scname :> Append(sofar, BufferedFile(cname, f.Data))) @@ @])
             ELSE continue([st EXCEPT !.c.Files = append(@, f)])

\* the files of an inlined nested chart, their first path element trimmed
RECURSIVE trimmed(_)
trimmed(fs) ==
    IF fs = <<>> THEN <<>>
    ELSE LET parts == SplitN2(Head(fs).Name)
         IN  IF Len(parts) < 2 THEN trimmed(Tail(fs))
             ELSE <<BufferedFile(parts[2], Head(fs).Data)>> \o trimmed(Tail(fs))

\* the orders in which a range over a map with these keys may visit them
RECURSIVE Orders(_)
Orders(keys) ==
    IF keys = {} THEN {<<>>}
    ELSE UNION { { <<k>> \o rest : rest \in Orders(keys \ {k}) } : k \in keys }

Loaded(c, err) == [chart |-> c, err |-> err]

RECURSIVE LoadFilesWithEnvValues(_, _)
RECURSIVE loadSubcharts(_, _, _, _)

\* LoadArchive on the data of a .tgz file
LoadArchive(data) ==
    IF data.kind # "archive" THEN {Loaded(EmptyChart, Error("gzip: invalid header"))}
    ELSE IF data.err # "" THEN {Loaded(EmptyChart, Error(data.err))}
    ELSE LoadFilesWithEnvValues(data.files, <<>>)

\* loadSubcharts going on to the next key when a nested chart fails to load
loadSubchartsSkipping(c, subcharts, order, envValuesFile) ==
    IF order = <<>> THEN {Loaded(c, NoError)}
    ELSE LET n == Head(order)
             fs == subcharts[n]
             scs == IF Ext(n) = TgzExt THEN LoadArchive(fs[1].Data)
                    ELSE LoadFilesWithEnvValues(trimmed(fs), envValuesFile)
         IN  IF StartsHidden(n) THEN loadSubcharts(c, subcharts, Tail(order), envValuesFile)
             ELSE UNION { loadSubcharts(
                              IF sc.err # NoError THEN c
                              ELSE [c EXCEPT !.Dependencies = Append(@, sc.chart)],
                              subcharts, Tail(order), envValuesFile)
                          : sc \in scs }

\* the loop over subcharts, visiting the keys in the given order: the set of
\* the results it may return
loadSubcharts(c, subcharts, order, envValuesFile) ==
    IF order = <<>> THEN {Loaded(c, NoError)}
    ELSE LET n == Head(order)
             fs == subcharts[n]
         IN  IF StartsHidden(n) THEN loadSubcharts(c, subcharts, Tail(order), envValuesFile)
             ELSE IF Ext(n) = TgzExt /\ fs[1].Name # n
             THEN {Loaded(c, ErrUnpackingTar(c.Metadata.Name, n, fs[1].Name))}
             ELSE LET scs == IF Ext(n) = TgzExt THEN LoadArchive(fs[1].Data)
                             ELSE LoadFilesWithEnvValues(trimmed(fs), envValuesFile)
                  IN  UNION { IF sc.err # NoError
                              THEN {Loaded(c, ErrUnpacking(n, c.Metadata.Name, sc.err))}
                              ELSE loadSubcharts(
                                       [c EXCEPT !.Dependencies = Append(@, sc.chart)],
                                       subcharts, Tail(order), envValuesFile)
                            : sc \in scs }

ErrMetadataMissing == Error("chart metadata (Chart.yaml) missing")
ErrNameEmpty == Error("invalid chart (Chart.yaml): name must not be empty")

\* metadataError without its check of the name
metadataErrorAnyName(c) ==
    IF c.Metadata = NoMetadata THEN ErrMetadataMissing ELSE NoError

\* the check that a Chart.yaml was read and names the chart
metadataError(c) ==
    IF c.Metadata = NoMetadata THEN ErrMetadataMissing
    ELSE IF c.Metadata.Name = "" THEN ErrNameEmpty
    ELSE NoError

\* LoadFilesWithEnvValues: the set of the results it may return
\* the chart given the re-encoded values whatever the size of the map
withValuesAlways(c, values) == [c EXCEPT !.Values = Config(YAML(values))]

\* c.Values is set to the re-encoded values when len(values) != 0
withValues(c, values) ==
    IF DOMAIN values.m # {} THEN [c EXCEPT !.Values = Config(YAML(values))] ELSE c

LoadFilesWithEnvValues(fs, envValuesFile) ==
    LET st == classifyFrom(fs, envValuesFile, 1,
                  [c |-> EmptyChart, subcharts |-> <<>>, values |-> ValuesMap(<<>>),
                   environment |-> ValuesMap(<<>>), err |-> NoError])
        values == MergeValues(st.values, st.environment)
        c == withValues(st.c, values)
    IN  IF st.err # NoError THEN {Loaded(st.c, st.err)}
        ELSE IF metadataError(c) # NoError THEN {Loaded(c, metadataError(c))}
        ELSE UNION { loadSubcharts(c, st.subcharts, order, envValuesFile)
                     : order \in Orders(DOMAIN st.subcharts) }

(***************************************************************************)
(* Inputs of the loader: lists of at most MaxInput files out of a          *)
(* catalogue, and the name of the environment values file.                 *)
(***************************************************************************)
MaxInput == 3

EnvName == <<"d", "e", "v">>
EnvNames == {<<>>, EnvName}

NameA == <<"a">>
NameB == <<"b">>
NameC == <<"c">>

\* the name of a file inside the directory of a nested chart
Nested(sub, name) == ChartsPrefix \o sub \o <<"/">> \o name

\* values written by values.yaml hold 2, those of the environment file 3
ValuesDoc == Table("a" :> Table("x" :> Scalar(2) @@ "y" :> Scalar(2)) @@ "b" :> Scalar(2))
EnvNestedDoc == Table("a" :> Table("x" :> Scalar(3)))
EnvFlatDoc == Table("b" :> Scalar(3) @@ "c" :> Scalar(3))

GoodArchive ==
    ArchiveData("", << BufferedFile(ChartfileName, MetaData("b", ApiVersionV1)),
                       BufferedFile(EnvName, YamlData(YamlText(EnvNestedDoc))) >>)
BadArchive == ArchiveData(ErrNoFiles, <<>>)
OldApiArchive ==
    ArchiveData("", << BufferedFile(ChartfileName, MetaData("a", "v2")) >>)

Catalogue ==
    { BufferedFile(ChartfileName, MetaData("p", ApiVersionV1)),
      BufferedFile(ChartfileName, MetaData("", ApiVersionV1)),
      BufferedFile(ChartfileName, MetaData("p", "v2")),
      BufferedFile(ChartfileName, MetaData("p", "")),
      BufferedFile(ValuesYamlName, YamlData(YamlText(ValuesDoc))),
      BufferedFile(ValuesYamlName, YamlData(EmptyText)),
      BufferedFile(EnvName, YamlData(YamlText(EnvNestedDoc))),
      BufferedFile(EnvName, YamlData(YamlText(EnvFlatDoc))),
      BufferedFile(ValuesTomlName, PlainData),
      BufferedFile(TemplatesPrefix \o <<"t">>, PlainData),
      BufferedFile(TemplatesPrefix \o <<"u">>, PlainData),
      BufferedFile(<<"R">>, PlainData),
      BufferedFile(Nested(NameA, ChartfileName), MetaData("a", ApiVersionV1)),
      BufferedFile(Nested(NameB, ChartfileName), MetaData("b", ApiVersionV1)),
      BufferedFile(Nested(NameA, EnvName), YamlData(YamlText(EnvNestedDoc))),
      BufferedFile(Nested(<<"_", "x">>, ChartfileName), MetaData("x", ApiVersionV1)),
      BufferedFile(ChartsPrefix \o NameA \o ProvExt, PlainData),
      BufferedFile(ChartsPrefix \o <<"R">>, PlainData),
      BufferedFile(ChartsPrefix \o NameB \o TgzExt, GoodArchive),
      BufferedFile(ChartsPrefix \o NameC \o TgzExt, BadArchive),
      BufferedFile(ChartsPrefix \o NameA \o TgzExt, OldApiArchive),
      BufferedFile(Nested(NameA, <<"x">> \o ProvExt), PlainData),
      BufferedFile(Nested(NameA, Nested(NameC, ChartfileName)), MetaData("c", ApiVersionV1)),
      BufferedFile(Nested(NameA, Nested(NameC, ChartfileName)), MetaData("c", "v2")) }

Inputs(n) == UNION { [1..k -> Catalogue] : k \in 0..n }

InitLoad ==
    /\ lpc = "ready" /\ lres = Null /\ lres2 = Null
    /\ lfiles \in Inputs(MaxInput) /\ lenv \in EnvNames
    /\ CoalescerIdle /\ ArchiveIdle /\ ChartsIdle /\ PrimitivesIdle

\* a caller runs LoadFilesWithEnvValues(lfiles, lenv)
DoLoad ==
    /\ lpc = "ready"
    /\ lres' \in LoadFilesWithEnvValues(lfiles, lenv)
    /\ lpc' = "done"
    /\ UNCHANGED <<lfiles, lenv, lres2, coVars, arVars, chVars, prVars>>

\* the caller loads the same files once more
DoLoadAgain ==
    /\ lpc = "done"
    /\ lres2' \in LoadFilesWithEnvValues(lfiles, lenv)
    /\ lpc' = "again"
    /\ UNCHANGED <<lfiles, lenv, lres, coVars, arVars, chVars, prVars>>

NextLoad == DoLoad \/ DoLoadAgain

SpecLoad == InitLoad /\ [][NextLoad]_vars

(***************************************************************************)
(* The chart tree of pkg/chart.  Every chart holds a parent pointer and a  *)
(* list of dependencies; AddDependency and SetDependencies are called on   *)
(* any chart with any list of charts.                                      *)
(***************************************************************************)
MaxDeps == 2
MaxArgs == 2

\* the argument lists charts ...*Chart
ArgLists == UNION { [1..k -> Charts] : k \in 0..MaxArgs }

\* the elements of a list
Elems(list) == { list[i] : i \in 1..Len(list) }

\* the parent pointers after the loop of AddDependency(charts...) on ch
parentsAfter(ch, charts) ==
    [x \in Charts |-> IF x \in Elems(charts) THEN ch ELSE chartParent[x]]

InitChart ==
    /\ ChartsIdle
    /\ CoalescerIdle /\ ArchiveIdle /\ LoaderIdle /\ PrimitivesIdle

\* ch.AddDependency(charts...)
AddDependency ==
    \E ch \in Charts, charts \in ArgLists :
        /\ Len(chartDeps[ch]) + Len(charts) <= MaxDeps
        /\ chartParent' = parentsAfter(ch, charts)
        /\ chartDeps' = [chartDeps EXCEPT ![ch] = @ \o charts]
        /\ UNCHANGED <<coVars, arVars, ldVars, prVars>>

\* ch.SetDependencies(charts...)
SetDependencies ==
    \E ch \in Charts, charts \in ArgLists :
        /\ Len(charts) <= MaxDeps
        /\ chartParent' = parentsAfter(ch, charts)
        /\ chartDeps' = [chartDeps EXCEPT ![ch] = charts]
        /\ UNCHANGED <<coVars, arVars, ldVars, prVars>>

NextChart == AddDependency \/ SetDependencies

SpecChart == InitChart /\ [][NextChart]_vars

\* ch.Dependencies(), ch.Parent(), ch.IsRoot()
Dependencies(ch) == chartDeps[ch]
ParentOf(ch) == chartParent[ch]
IsRoot(ch) == chartParent[ch] = NoChart

\* ch.Root(): the recursion over Parent() ends at a chart that is a root, or
\* it never ends, which is so when it has gone through more charts than
\* there are
StackOverflow == "goroutine stack exceeds limit"
RECURSIVE RootWithin(_, _)
RootWithin(ch, calls) ==
    IF IsRoot(ch) THEN ch
    ELSE IF calls = 0 THEN StackOverflow
    ELSE RootWithin(ParentOf(ch), calls - 1)
Root(ch) == RootWithin(ch, Cardinality(Charts))

(***************************************************************************)
(* The values primitives.  A dotted path is a string; the keys of the      *)
(* trees handed to Table and PathValue are strings as well.                *)
(***************************************************************************)
Dot == "."

\* tableLookup
tableLookup(v, simple) ==
    IF ~Has(v, simple) THEN [table |-> v, err |-> TRUE]
    ELSE IF v.m[simple].t \in {"msi", "Values"}
         THEN [table |-> v.m[simple], err |-> FALSE]
         ELSE [table |-> EmptyTable, err |-> TRUE]

\* the loop of Values.Table over the names from the i-th on
RECURSIVE tableFrom(_, _, _)
tableFrom(table, names, i) ==
    IF i > Len(names) THEN [table |-> table, err |-> FALSE]
    ELSE LET r == tableLookup(table, names[i])
         IN  IF r.err THEN r ELSE tableFrom(r.table, names, i + 1)

\* Values.Table
ValuesTable(v, name) == tableFrom(v, Split(name, Dot), 1)

ErrZeroLength == "YAML path string cannot be zero length"
ErrNoValue == "ErrNoValue"

Value(val) == [val |-> val, err |-> ""]
NoValue(err) == [val |-> Null, err |-> err]

\* Values.PathValue
PathValue(v, ypath) ==
    LET yps == Split(ypath, Dot)
        ypsLen == Len(yps)
    IN  IF Len(ypath) = 0 THEN NoValue(ErrZeroLength)
        ELSE IF ypsLen = 1
        THEN LET tvals == AsMap(v)
                 k == yps[1]
             IN  IF Has(tvals, k) /\ ~istable(tvals.m[k]) THEN Value(tvals.m[k])
                 ELSE NoValue(ErrNoValue)
        ELSE LET st == Join(SubSeq(yps, 1, ypsLen - 1), Dot)
                 sk == yps[ypsLen]
                 t == ValuesTable(v, st)
             IN  IF t.err THEN NoValue(ErrNoValue)
                 ELSE IF Has(t.table, sk) /\ ~istable(t.table.m[sk]) THEN Value(t.table.m[sk])
                 ELSE NoValue(ErrNoValue)

(***************************************************************************)
(* Inputs of PathValue: trees of depth two over two keys, whose nested     *)
(* mappings are map[string]interface{}, as ReadValues decodes them, or     *)
(* Values, as ToRenderValuesCaps stores the coalesced values under         *)
(* "Values"; paths of at most MaxPathLen characters.                       *)
(***************************************************************************)
MaxPathLen == 3

PathKeys == {<<"a">>, <<"b">>}
PathChars == {"a", "b", Dot}
Paths == UNION { [1..n -> PathChars] : n \in 0..MaxPathLen }

MapsOver(values) == UNION { [ks -> values] : ks \in SUBSET PathKeys }
Leaves == {Null, Scalar(1)}
Inner == { Table(f) : f \in MapsOver(Leaves) } \cup { ValuesMap(f) : f \in MapsOver(Leaves) }
Trees == { ValuesMap(f) : f \in MapsOver(Leaves \cup Inner) }

PathValueCall(v, ypath) == [t |-> "call", op |-> "PathValue", v |-> v, ypath |-> ypath]


(***************************************************************************)
(* chart.MergeValues.  Go maps are references: a heap gives the content of *)
(* the map at every address, a value held in a map is a scalar or the      *)
(* reference of a map[string]interface{}.                                  *)
(***************************************************************************)
Ref(addr) == [t |-> "ref", a |-> addr]

\* make(map[string]interface{}): an address not in use
Fresh(h) == CHOOSE n \in 1..(Cardinality(DOMAIN h) + 1) : n \notin DOMAIN h

RECURSIVE chartMergeValuesInto(_, _, _, _)

\* MergeValues writing into a instead of into a map of its own
chartMergeValuesInPlace(h, a, b) == chartMergeValuesInto(h, a, b, DOMAIN h[b])

\* chart.MergeValues(a, b): out is made and filled from a, then the loop
\* over b runs
chartMergeValues(h, a, b) ==
    LET out == Fresh(h)
    IN  chartMergeValuesInto(h @@ (out :> h[a]), out, b, DOMAIN h[b])

\* the loop over the keys of b that are still to be visited
chartMergeValuesInto(h, out, b, keys) ==
    IF keys = {} THEN [h |-> h, out |-> out]
    ELSE LET k == CHOOSE x \in keys : TRUE
             v == h[b][k]
         IN  IF v.t = "ref" /\ k \in DOMAIN h[out] /\ h[out][k].t = "ref"
             THEN LET r == chartMergeValues(h, h[out][k].a, v.a)
                  IN  chartMergeValuesInto(
                          [r.h EXCEPT ![out] = (k :> Ref(r.out)) @@ @], out, b, keys \ {k})
             ELSE chartMergeValuesInto(
                      [h EXCEPT ![out] = (k :> v) @@ @], out, b, keys \ {k})

(***************************************************************************)
(* Inputs of chart.MergeValues: a at address 1 and b at address 2, or both *)
(* at address 1, over two keys; the maps at the addresses 3 and 4 are      *)
(* nested in them, the map at 4 possibly in the map at 3.                  *)
(***************************************************************************)
MergeKeys == {"x", "y"}
ContentsOver(cells) == UNION { [ks -> cells] : ks \in SUBSET MergeKeys }

Heaps ==
    { (1 :> m1) @@ (2 :> m2) @@ (3 :> m3) @@ (4 :> m4) :
          m1 \in ContentsOver({Scalar(1), Ref(3), Ref(4)}),
          m2 \in ContentsOver({Scalar(2), Ref(3), Ref(4)}),
          m3 \in ContentsOver({Scalar(1), Ref(4)}),
          m4 \in ContentsOver({Scalar(2)}) }

ChartMergeCall(h, a, b) == [t |-> "call", op |-> "chart.MergeValues", h |-> h, a |-> a, b |-> b]

(***************************************************************************)
(* Inputs of chartutil.MergeValues: maps over two keys whose values are    *)
(* nil, a scalar (1 in dest, 2 in src), or a nested mapping of either type.*)
(***************************************************************************)
NestedOf(s) ==
    { Table(f) : f \in {<<>>, ("x" :> s)} } \cup { ValuesMap(f) : f \in {<<>>, ("x" :> s)} }
Operands(s) ==
    { ValuesMap(f) : f \in ContentsOver({Null, s} \cup NestedOf(s)) }

MergeCall(dest, src) == [t |-> "call", op |-> "chartutil.MergeValues", dest |-> dest, src |-> src]

ValuesCalls ==
    { PathValueCall(v, ypath) : v \in Trees, ypath \in Paths }
        \cup { ChartMergeCall(h, 1, b) : h \in Heaps, b \in {1, 2} }
        \cup { MergeCall(dest, src) : dest \in Operands(Scalar(1)), src \in Operands(Scalar(2)) }

InitValues ==
    /\ vpc = "ready" /\ vargs \in ValuesCalls /\ vret = Null
    /\ CoalescerIdle /\ ArchiveIdle /\ LoaderIdle /\ ChartsIdle

\* a caller runs v.PathValue(ypath)
DoPathValue ==
    /\ vpc = "ready" /\ vargs.op = "PathValue"
    /\ vret' = PathValue(vargs.v, vargs.ypath)
    /\ vpc' = "done"
    /\ UNCHANGED <<vargs, coVars, arVars, ldVars, chVars>>

\* a caller runs chart.MergeValues(a, b)
DoChartMergeValues ==
    /\ vpc = "ready" /\ vargs.op = "chart.MergeValues"
    /\ vret' = chartMergeValues(vargs.h, vargs.a, vargs.b)
    /\ vpc' = "done"
    /\ UNCHANGED <<vargs, coVars, arVars, ldVars, chVars>>

\* a caller runs chartutil.MergeValues(dest, src): the map dest is written
\* to and returned
DoMergeValues ==
    /\ vpc = "ready" /\ vargs.op = "chartutil.MergeValues"
    /\ LET merged == MergeValues(vargs.dest, vargs.src)
       IN  vret' = [dest |-> merged, out |-> merged]
    /\ vpc' = "done"
    /\ UNCHANGED <<vargs, coVars, arVars, ldVars, chVars>>

NextValues == DoPathValue \/ DoChartMergeValues \/ DoMergeValues

SpecValues == InitValues /\ [][NextValues]_vars


(***************************************************************************)
(* The parts together.                                                     *)
(***************************************************************************)
Init == InitCoalesce \/ InitArchive \/ InitLoad \/ InitChart \/ InitValues \/ InitEntry

Next == NextCoalesce \/ NextArchive \/ NextLoad \/ NextChart \/ NextValues \/ NextEntry

Spec == Init /\ [][Next]_vars


(***************************************************************************)
(* Reading a values tree, for the properties below.                        *)
(***************************************************************************)
Absent == [t |-> "absent"]

RECURSIVE Lookup(_, _)
Lookup(v, path) ==
    IF path = <<>> THEN v
    ELSE IF v.t = "msi" /\ Has(v, Head(path)) THEN Lookup(v.m[Head(path)], Tail(path))
    ELSE Absent

\* the paths of all the nodes below the root of a tree
RECURSIVE PathsOf(_)
PathsOf(v) ==
    IF v.t # "msi" THEN {}
    ELSE UNION { {<<k>>} \cup { <<k>> \o q : q \in PathsOf(v.m[k]) } : k \in DOMAIN v.m }

Parent(p) == SubSeq(p, 1, Len(p) - 1)
Last(p) == p[Len(p)]

Returned == cpc \in {"done", "again"}
ReturnedOk == Returned /\ res.status = "ok"

\* the overrides as CoalesceValues parses them
UserTree == IF vals.isnil THEN EmptyTable ELSE ReadValues(vals.Raw).vals
UserParses == vals.isnil \/ ~ReadValues(vals.Raw).err

HasDefaults(c) ==
    ~c.values.isnil /\ c.values.Raw # EmptyText /\ ~ReadValues(c.values.Raw).err
DefaultsOf(c) == IF HasDefaults(c) THEN AsMap(ReadValues(c.values.Raw).vals) ELSE EmptyTable

HasSub == Len(chrt.deps) = 1
TheSub == chrt.deps[1]
HasSubSub == HasSub /\ Len(TheSub.deps) = 1

\* the path runs through the `global` mapping of a dependency's section, where
\* coalesceGlobals lets the enclosing package's globals win by design
UnderSectionGlobal(p) == \E i \in 2..Len(p) : p[i] = GlobalKey

\* C1 (first half): a non-null, non-mapping value the user overrides set at a
\* path is the value at that path in the coalesced result.  (Paths under a
\* dependency section's `global` are left out: the parent's globals win there.)
C1_UserWins ==
    ReturnedOk =>
        \A p \in PathsOf(UserTree) :
            (Lookup(UserTree, p).t = "scalar" /\ ~UnderSectionGlobal(p)) =>
                Lookup(res.vals, p) = Lookup(UserTree, p)

\* the value the user or, failing that, the parent's defaults set at a path
OuterAt(p) ==
    IF Lookup(UserTree, p) # Absent THEN Lookup(UserTree, p)
    ELSE Lookup(DefaultsOf(chrt), p)

\* C1 (second half): a value the parent's defaults or the user set in a
\* dependency's section is not replaced by the dependency's own default for
\* that key, which only fills the keys the outer layers leave absent.
C1_OuterBeatsDependency ==
    (ReturnedOk /\ HasSub) =>
        \A k \in DOMAIN DefaultsOf(TheSub).m :
            /\ OuterAt(<<SubName, k>>).t = "scalar" =>
                   Lookup(res.vals, <<SubName, k>>) = OuterAt(<<SubName, k>>)
            /\ (/\ DefaultsOf(TheSub).m[k].t = "scalar"
                /\ Lookup(res.vals, <<SubName, k>>) = DefaultsOf(TheSub).m[k]) =>
                   OuterAt(<<SubName, k>>) = Absent

\* C1: CoalesceValues gives the outer layer precedence at every nesting level:
\* user values stay where the user put them, and a dependency's defaults only
\* fill the keys that the user and the parent's defaults leave absent.
C1_OuterLayerPrecedence == C1_UserWins /\ C1_OuterBeatsDependency

\* the names of the dependencies whose sections live at a level of the tree
DepNamesAt(level) ==
    IF level = <<>> /\ HasSub THEN {SubName}
    ELSE IF level = <<SubName>> /\ HasSubSub THEN {SubSubName}
    ELSE {}

\* the keys of a level that dependency coalescence rewrites by design: the
\* dependencies' sections and, inside a section, its `global` mapping
RewrittenAt(level) ==
    DepNamesAt(level) \cup (IF level # <<>> /\ HasSub /\ level[1] = SubName
                            THEN {GlobalKey} ELSE {})

\* C2: for a package with default values, a key the user overrides set to null
\* (its enclosing values being mappings in the overrides and in the defaults)
\* is absent from the result at that level, and every other default key of
\* that level which the overrides do not set keeps its (non-null) default
\* value.  (Keys that name a dependency's section or a section's `global` are
\* left out.)
C2_NullDeletesKey ==
    (ReturnedOk /\ HasDefaults(chrt)) =>
        \A p \in PathsOf(UserTree) :
            (/\ Lookup(UserTree, p) = Null
             /\ istable(Lookup(DefaultsOf(chrt), Parent(p)))
             /\ Last(p) \notin RewrittenAt(Parent(p))) =>
                /\ Lookup(res.vals, p) = Absent
                /\ \A k \in DOMAIN Lookup(DefaultsOf(chrt), Parent(p)).m
                              \ ({Last(p)} \cup RewrittenAt(Parent(p))) :
                       (/\ ~Has(Lookup(UserTree, Parent(p)), k)
                        /\ Lookup(DefaultsOf(chrt), Parent(p) \o <<k>>) # Null) =>
                           Lookup(res.vals, Parent(p) \o <<k>>)
                               = Lookup(DefaultsOf(chrt), Parent(p) \o <<k>>)

\* every `global` slot of a tree is a mapping
GlobalsAreMappings(tree) ==
    \A p \in PathsOf(tree) : Last(p) = GlobalKey => istable(Lookup(tree, p))

RECURSIVE Covers(_, _)
\* child holds every key of parent, nested mappings likewise, scalars equal
Covers(parent, child) ==
    /\ istable(child)
    /\ \A k \in DOMAIN parent.m :
          /\ Has(child, k)
          /\ IF istable(parent.m[k]) THEN Covers(parent.m[k], child.m[k])
             ELSE child.m[k] = parent.m[k]

\* C3: when every `global` slot of the overrides and of the defaults is a
\* mapping, every key of a package's merged `global` mapping is present under
\* `global` of each of its dependencies' sections, at any depth.
C3_GlobalsReachDependencies ==
    (/\ ReturnedOk
     /\ GlobalsAreMappings(UserTree) /\ GlobalsAreMappings(DefaultsOf(chrt))
     /\ HasSub => GlobalsAreMappings(DefaultsOf(TheSub))
     /\ HasSubSub => GlobalsAreMappings(DefaultsOf(TheSub.deps[1]))) =>
        /\ (HasSub /\ istable(Lookup(res.vals, <<GlobalKey>>))) =>
               Covers(Lookup(res.vals, <<GlobalKey>>),
                      Lookup(res.vals, <<SubName, GlobalKey>>))
        /\ (HasSubSub /\ istable(Lookup(res.vals, <<SubName, GlobalKey>>))) =>
               Covers(Lookup(res.vals, <<SubName, GlobalKey>>),
                      Lookup(res.vals, <<SubName, SubSubName, GlobalKey>>))

\* C4: coalescing a package with the result of coalescing it with empty
\* overrides as the overrides returns that first result again.
C4_Idempotent ==
    (cpc = "again" /\ vals = Config(EmptyText)) => res2 = res

\* C5: no top-level key of the tree CoalesceValues returns maps to null.
C5_NoTopLevelNull ==
    ReturnedOk => \A k \in DOMAIN res.vals.m : res.vals.m[k] # Null

\* C9: with overrides {sub: {k: null}}, k is absent from result[sub] whatever
\* defines k: the dependency's defaults, the parent's defaults for sub, or both.
C9_NullDeletesInDependency ==
    (/\ ReturnedOk /\ HasSub
     /\ UserTree = Table(SubName :> Table("k" :> Null))
     /\ \/ Lookup(DefaultsOf(TheSub), <<"k">>).t = "scalar"
        \/ Lookup(DefaultsOf(chrt), <<SubName, "k">>).t = "scalar") =>
        Lookup(res.vals, <<SubName, "k">>) = Absent

\* the values coalesceDeps receives for the root chart and for its dependency
AssembledRoot ==
    IF vals.isnil THEN Ok(EmptyTable) ELSE coalesceValues(chrt, UserTree)
AssembledSub ==
    LET d == AssembledRoot.vals
        d1 == IF Has(d, SubName) THEN d ELSE Put(d, SubName, EmptyTable)
    IN  coalesceValues(TheSub, coalesceGlobals(d1.m[SubName], d1))
RootReachesDeps == Returned /\ UserParses /\ AssembledRoot.status = "ok" /\ HasSub
SubReachesDeps ==
    /\ RootReachesDeps /\ HasSubSub
    /\ ~Has(AssembledRoot.vals, SubName) \/ istable(AssembledRoot.vals.m[SubName])
    /\ AssembledSub.status = "ok"

\* C10: when the values assembled for a package hold a non-mapping under the
\* name of a dependency, CoalesceValues fails with `type mismatch on <name>`;
\* when the key is absent it is created as a mapping and coalescence goes on
\* into the dependency (no crash, and the section is a mapping on success).
C10_DependencySection ==
    /\ (RootReachesDeps /\ Has(AssembledRoot.vals, SubName)
            /\ ~istable(AssembledRoot.vals.m[SubName])) =>
           (res.status = "error" /\ res.err = "type mismatch on " \o SubName)
    /\ (RootReachesDeps /\ ~Has(AssembledRoot.vals, SubName)) =>
           (res.status # "panic"
            /\ (res.status = "ok" => istable(Lookup(res.vals, <<SubName>>))))
    /\ (SubReachesDeps /\ Has(AssembledSub.vals, SubSubName)
            /\ ~istable(AssembledSub.vals.m[SubSubName])) =>
           (res.status = "error" /\ res.err = "type mismatch on " \o SubSubName)
    /\ (SubReachesDeps /\ ~Has(AssembledSub.vals, SubSubName)) =>
           (res.status # "panic"
            /\ (res.status = "ok" =>
                   istable(Lookup(res.vals, <<SubName, SubSubName>>))))

(***************************************************************************)
(* Properties of the archive reader.                                       *)
(***************************************************************************)
\* no element of the /-separated name is the parent directory `..`
NoParentElement(n) ==
    LET elems == Split(n, "/") IN \A i \in 1..Len(elems) : elems[i] # DotDot

\* the name begins with a letter, a colon and a slash
DriveLike(n) == Len(n) >= 3 /\ n[1] \in Letters /\ n[2] = ":" /\ n[3] = "/"

SafeName(n) ==
    /\ n # <<>>
    /\ n[1] # "/"
    /\ \A i \in 1..Len(n) : n[i] # "\\"
    /\ NoParentElement(n)
    /\ ~DriveLike(n)

\* C6: the name of every buffered file the archive reader emits is non-empty,
\* relative (no leading /), holds no backslash, has no `..` among its
\* /-separated elements, and does not match ^[A-Za-z]:/.
C6_SafeNames == \A i \in 1..Len(files) : SafeName(files[i])

\* the reader returned two files, one of them inside a directory
C6_Witness ==
    /\ apc = "returned" /\ aerr = "" /\ Len(files) = 2
    /\ \E i \in 1..Len(files) : ContainsRune(files[i], "/")

(***************************************************************************)
(* Properties of the loader.                                               *)
(***************************************************************************)
LoadReturned == lpc \in {"done", "again"}
LoadedOk == LoadReturned /\ lres.err = NoError

\* the values tree a Config encodes
Encoded(cfg) == IF cfg.isnil THEN EmptyTable ELSE ReadValues(cfg.Raw).vals

\* the document of the only file of a list, the empty mapping for no file
DocOf(fs) == IF fs = <<>> THEN EmptyTable ELSE ReadValues(fs[1].Data.text).vals

ValuesFiles == SelectSeq(lfiles, LAMBDA f : f.Name = ValuesYamlName)
EnvFiles == SelectSeq(lfiles, LAMBDA f : f.Name = lenv)

\* the deep merge of two mappings, the second winning
RECURSIVE DeepMerge(_, _)
DeepMerge(v, e) ==
    Table([k \in DOMAIN v.m \cup DOMAIN e.m |->
        IF k \notin DOMAIN e.m THEN v.m[k]
        ELSE IF k \notin DOMAIN v.m THEN e.m[k]
        ELSE IF istable(v.m[k]) /\ istable(e.m[k]) THEN DeepMerge(v.m[k], e.m[k])
        ELSE e.m[k]])

\* C7: a package loaded with an environment values file has defaultValues that
\* encode the deep merge of values.yaml with the environment file: the
\* environment wins per key, two mappings under one key are merged
\* recursively, keys only in values.yaml are kept.
C7_EnvDeepMerge ==
    (LoadedOk /\ lenv = EnvName /\ Len(ValuesFiles) <= 1 /\ Len(EnvFiles) <= 1) =>
        Encoded(lres.chart.Values) = DeepMerge(DocOf(ValuesFiles), DocOf(EnvFiles))

\* the key under which a file is collected as part of a nested chart, <<>>
\* for a file that is not
NestedKey(f) ==
    IF /\ f.Name \notin {ChartfileName, ValuesTomlName, ValuesYamlName, lenv}
       /\ ~HasPrefix(f.Name, TemplatesPrefix)
       /\ HasPrefix(f.Name, ChartsPrefix)
       /\ Ext(f.Name) # ProvExt
       /\ ~StartsHidden(TrimPrefix(f.Name, ChartsPrefix))
    THEN SplitN2(TrimPrefix(f.Name, ChartsPrefix))[1]
    ELSE <<>>

\* the keys of the nested charts in the order the input shows them first
RECURSIVE FirstSeenFrom(_, _)
FirstSeenFrom(i, seen) ==
    IF i > Len(lfiles) THEN seen
    ELSE LET key == NestedKey(lfiles[i])
         IN  IF key = <<>> \/ \E j \in 1..Len(seen) : seen[j] = key
             THEN FirstSeenFrom(i + 1, seen)
             ELSE FirstSeenFrom(i + 1, Append(seen, key))
FirstSeen == FirstSeenFrom(1, <<>>)

\* the files of the input collected under a key, named as the nested chart
\* sees them
RECURSIVE InputOfFrom(_, _)
InputOfFrom(key, i) ==
    IF i > Len(lfiles) THEN <<>>
    ELSE IF NestedKey(lfiles[i]) = key
         THEN <<BufferedFile(TrimPrefix(lfiles[i].Name, ChartsPrefix), lfiles[i].Data)>>
                  \o InputOfFrom(key, i + 1)
         ELSE InputOfFrom(key, i + 1)

\* the charts the nested chart under a key may load as
ChartsOf(key) ==
    LET fs == InputOfFrom(key, 1)
        rs == IF Ext(key) = TgzExt THEN LoadArchive(fs[1].Data)
              ELSE LoadFilesWithEnvValues(trimmed(fs), lenv)
    IN  { r.chart : r \in rs }

\* C8: after a successful load the dependencies stand in the order in which
\* the nested charts were first seen in the input, and a second load of the
\* same input gives the same order.
C8_DependencyOrder ==
    /\ LoadedOk =>
          /\ Len(lres.chart.Dependencies) = Len(FirstSeen)
          /\ \A i \in 1..Len(FirstSeen) :
                lres.chart.Dependencies[i] \in ChartsOf(FirstSeen[i])
    /\ (lpc = "again" /\ lres.err = NoError /\ lres2.err = NoError) =>
          lres2.chart.Dependencies = lres.chart.Dependencies

(***************************************************************************)
(* Properties of the coalescer: unparsable defaults, non-mapping globals.  *)
(***************************************************************************)
\* the chart holds default values whose text does not parse
HasBadDefaults(c) == ~c.values.isnil /\ ReadValues(c.values.Raw).err

\* C11: when the default-values text of a package (the root or its
\* dependency) cannot be parsed, CoalesceValues returns successfully, and for
\* a root without dependencies the result is the overrides alone.
C11_BadDefaultsDropped ==
    (/\ Returned /\ UserParses
     /\ GlobalsAreMappings(UserTree)
     /\ HasBadDefaults(chrt) \/ (HasSub /\ HasBadDefaults(TheSub))) =>
        /\ res.status = "ok"
        /\ (HasBadDefaults(chrt) /\ ~HasSub /\ ~vals.isnil) => res.vals = UserTree

\* the section the values assembled for the root hold for its dependency
SectionOf ==
    IF Has(AssembledRoot.vals, SubName) THEN AssembledRoot.vals.m[SubName]
    ELSE EmptyTable

\* the `global` slot of a mapping exists and holds a scalar, not a mapping
BadGlobal(tree) == Has(tree, GlobalKey) /\ tree.m[GlobalKey].t = "scalar"

\* C12: when the `global` of the dependency's section or of the parent exists
\* and is not a mapping, CoalesceValues still returns without error or crash
\* (also when the dependency has dependencies), and the section keeps every
\* other key with its value.
C12_BadGlobalSkipped ==
    (/\ RootReachesDeps /\ istable(SectionOf)
     /\ BadGlobal(SectionOf) \/ BadGlobal(AssembledRoot.vals)
     /\ ~HasBadDefaults(TheSub)) =>
        /\ res.status = "ok"
        /\ \A k \in DOMAIN SectionOf.m \ {GlobalKey, SubSubName} :
              SectionOf.m[k].t = "scalar" =>
                  Lookup(res.vals, <<SubName, k>>) = SectionOf.m[k]


(***************************************************************************)
(* Properties of the chart tree.                                           *)
(***************************************************************************)
\* the charts that hold d in their Dependencies()
Holders(d) == { p \in Charts : d \in Elems(Dependencies(p)) }

\* how often d stands in the Dependencies() of p
Occurrences(p, d) == Cardinality({ i \in 1..Len(Dependencies(p)) : Dependencies(p)[i] = d })

\* the charts from which d is reached through at most n steps of Dependencies()
RECURSIVE AncestorsUpTo(_, _)
AncestorsUpTo(d, n) ==
    IF n = 0 THEN {}
    ELSE Holders(d) \cup UNION { AncestorsUpTo(p, n - 1) : p \in Holders(d) }
Ancestors(d) == AncestorsUpTo(d, Cardinality(Charts))

\* C13: after any sequence of AddDependency and SetDependencies calls the
\* dependency relation is a tree: a chart stands in the Dependencies() of at
\* most one chart, at most once, that chart is its Parent(), and no chart is
\* its own ancestor.
C13_DependenciesFormTree ==
    \A d \in Charts :
        /\ Cardinality(Holders(d)) <= 1
        /\ \A p \in Holders(d) : Occurrences(p, d) = 1 /\ ParentOf(d) = p
        /\ d \notin Ancestors(d)


(***************************************************************************)
(* Properties of the loader: metadata, nested charts, default values.      *)
(***************************************************************************)
\* the Chart.yaml files at the root of the input
RootChartfiles == SelectSeq(lfiles, LAMBDA f : f.Name = ChartfileName)

\* the metadata the root ends up with: that of the last Chart.yaml
LastMetadata == RootChartfiles[Len(RootChartfiles)].Data

\* no file of the root makes the classification loop return early: there is
\* no values.toml, and every Chart.yaml parses with an apiVersion that is
\* empty or v1
ClassificationPasses ==
    \A i \in 1..Len(lfiles) :
        /\ lfiles[i].Name # ValuesTomlName
        /\ lfiles[i].Name = ChartfileName =>
               (lfiles[i].Data.kind = "meta" /\ lfiles[i].Data.ApiVersion \in {"", "v1"})

\* the chart that holds a metadata and nothing else
BareChart(meta) ==
    [Metadata |-> meta, Values |-> NilConfig, Templates |-> <<>>, Files |-> <<>>,
     Dependencies |-> <<>>]

\* C14 as stated: a load fails with `chart metadata (Chart.yaml) missing`
\* when the list holds no root Chart.yaml, with the name-must-not-be-empty
\* error when the parsed metadata has an empty name, and a list of only a
\* Chart.yaml with a non-empty name loads as a chart with nothing but metadata.
C14_AsStated ==
    LoadReturned =>
        /\ RootChartfiles = <<>> => lres.err = ErrMetadataMissing
        /\ (RootChartfiles # <<>> /\ LastMetadata.Name = "") => lres.err = ErrNameEmpty
        /\ (Len(lfiles) = 1 /\ RootChartfiles = lfiles /\ LastMetadata.Name # "") =>
               lres = Loaded(BareChart(LastMetadata), NoError)

\* C14 (amended): the same, for lists on which the classification loop does
\* not return early (no values.toml, no apiVersion other than empty or v1).
C14_MetadataChecks ==
    (LoadReturned /\ ClassificationPasses) =>
        /\ RootChartfiles = <<>> => lres.err = ErrMetadataMissing
        /\ (RootChartfiles # <<>> /\ LastMetadata.Name = "") => lres.err = ErrNameEmpty
        /\ (Len(lfiles) = 1 /\ RootChartfiles = lfiles /\ LastMetadata.Name # "") =>
               lres = Loaded(BareChart(LastMetadata), NoError)

\* a list that holds files but no Chart.yaml was refused for its missing
\* metadata
C14_Witness ==
    /\ LoadReturned /\ ClassificationPasses
    /\ lfiles # <<>> /\ RootChartfiles = <<>> /\ lres.err = ErrMetadataMissing


\* the results the load of the nested chart under a key may give
ResultsOf(key) ==
    LET fs == InputOfFrom(key, 1)
    IN  IF Ext(key) = TgzExt THEN LoadArchive(fs[1].Data)
        ELSE LoadFilesWithEnvValues(trimmed(fs), lenv)

\* the nested charts of the root whose load fails
FailingKeys ==
    { key \in Elems(FirstSeen) : \E r \in ResultsOf(key) : r.err # NoError }

\* the root itself is sound: classification passes and it has a named metadata
RootSound ==
    ClassificationPasses /\ RootChartfiles # <<>> /\ LastMetadata.Name # ""

UnpackingMsg == "error unpacking %s in %s: %s"

\* the error names the failed nested chart and its parent and carries the
\* error of the nested load
NamesFailure(err, parentName) ==
    /\ err.msg = UnpackingMsg
    /\ err.sub \in FailingKeys
    /\ err.parent = parentName
    /\ err.cause \in { r.err : r \in ResultsOf(err.sub) } \ {NoError}

\* the input holds a nested chart a whose own nested chart c has a Chart.yaml
\* with an apiVersion that is not accepted, a itself having a sound Chart.yaml
DeepFailure ==
    /\ \E i \in 1..Len(lfiles) :
          /\ lfiles[i].Name = Nested(NameA, Nested(NameC, ChartfileName))
          /\ lfiles[i].Data.ApiVersion \notin {"", "v1"}
    /\ \E i \in 1..Len(lfiles) :
          /\ lfiles[i].Name = Nested(NameA, ChartfileName)
          /\ lfiles[i].Data.Name = "a" /\ lfiles[i].Data.ApiVersion \in {"", "v1"}

\* C15: when the load of a nested chart fails, the load of the enclosing chart
\* fails with an error that names the failed nested chart and its parent and
\* carries the cause, at depth two as well; a load that succeeds has loaded
\* every nested chart as a dependency.
C15_NestedFailurePropagates ==
    /\ (LoadReturned /\ RootSound /\ FailingKeys # {}) =>
           NamesFailure(lres.err, LastMetadata.Name)
    /\ (LoadReturned /\ RootSound /\ DeepFailure /\ lres.err.msg = UnpackingMsg
            /\ lres.err.sub = NameA) =>
           /\ lres.err.cause.msg = UnpackingMsg
           /\ lres.err.cause.sub = NameC
           /\ lres.err.cause.parent = "a"
           /\ lres.err.cause.cause.msg # ""
    /\ LoadedOk =>
           (FailingKeys = {} /\ Len(lres.chart.Dependencies) = Len(FirstSeen))

\* the load failed on a nested chart that failed on its own nested chart
C15_Witness ==
    /\ LoadReturned /\ RootSound /\ DeepFailure
    /\ lres.err.msg = UnpackingMsg /\ lres.err.sub = NameA
    /\ lres.err.cause.msg = UnpackingMsg


\* C16: reading a directory entry or a PAX header entry adds no file and ends
\* nothing, and an archive at whose end no file was produced is rejected with
\* `no files in chart archive`; a reader that returns without error returns
\* at least one file.
C16_NoFileFromDirectoryOrPax ==
    /\ [][(ReadDirectory \/ ReadPaxHeader) =>
              (files' = files /\ apc' = apc /\ aerr' = aerr)]_vars
    /\ [][(ReadEOF /\ files = <<>>) =>
              (apc' = "returned" /\ aerr' = ErrNoFiles /\ files' = <<>>)]_vars
    /\ []((apc = "returned" /\ aerr = "") => files # <<>>)

\* headers were read, all of them directories or PAX headers, and the
\* archive was rejected for holding no files
C16_Witness ==
    apc = "returned" /\ nread >= 2 /\ files = <<>> /\ aerr = ErrNoFiles


\* the top-level keys that the values.yaml files and the environment files of
\* a list of files contribute to the merged map
KeysIn(fs, envValuesFile) ==
    UNION { DOMAIN fs[i].Data.text.doc.m :
            i \in { j \in 1..Len(fs) :
                      /\ fs[j].Name \in {ValuesYamlName, envValuesFile}
                      /\ fs[j].Data.kind = "yaml"
                      /\ fs[j].Data.text.txt = "yaml"
                      /\ fs[j].Data.text.doc.t = "msi" } }

\* the dependencies of the loaded chart that the directory charts/a gave
LoadedFromA ==
    { i \in 1..Len(lres.chart.Dependencies) :
          lres.chart.Dependencies[i].Metadata.Name = "a" }

\* C17: after a successful load a chart has Values set exactly when the map
\* merged from its values.yaml and its environment file is not empty, the
\* root and an inlined nested chart alike; with an empty or absent
\* values.yaml and no overlay content it has none.
C17_ValuesSetIffNonEmpty ==
    LoadedOk =>
        /\ (lres.chart.Values # NilConfig) <=> (KeysIn(lfiles, lenv) # {})
        /\ \A i \in LoadedFromA :
              (lres.chart.Dependencies[i].Values # NilConfig)
                  <=> (KeysIn(trimmed(InputOfFrom(NameA, 1)), lenv) # {})
        /\ lres.chart.Values # NilConfig =>
              DOMAIN Encoded(lres.chart.Values).m = KeysIn(lfiles, lenv)

\* a chart with an empty values.yaml and no overlay loaded without Values
C17_Witness ==
    /\ LoadedOk /\ ValuesFiles # <<>> /\ KeysIn(lfiles, lenv) = {}
    /\ lres.chart.Values = NilConfig

\* a nested chart with an overlay of its own loaded with Values under a root
\* without
C17_NestedSet ==
    /\ LoadedOk /\ lres.chart.Values = NilConfig
    /\ \E i \in LoadedFromA : lres.chart.Dependencies[i].Values # NilConfig


\* a Chart.yaml whose apiVersion is set and is not v1
OldApi(f) == f.Data.kind = "meta" /\ f.Data.ApiVersion \notin {"", ApiVersionV1}

\* the name is that of the Chart.yaml of the root or of a nested chart in
\* directories that are not hidden
ChartfilePath(name) ==
    LET parts == Split(name, "/")
    IN  /\ Len(parts) % 2 = 1
        /\ parts[Len(parts)] = ChartfileName
        /\ \A k \in 1..(Len(parts) - 1) :
              IF k % 2 = 1 THEN parts[k] = <<"c", "h", "a", "r", "t", "s">>
              ELSE parts[k] # <<>> /\ ~StartsHidden(parts[k])

\* the file is an inner archive, the first under its key, that holds a
\* Chart.yaml with an old apiVersion
OldApiInner(i) ==
    /\ NestedKey(lfiles[i]) # <<>>
    /\ lfiles[i].Name = ChartsPrefix \o NestedKey(lfiles[i])
    /\ Ext(lfiles[i].Name) = TgzExt
    /\ \A j \in 1..(i - 1) : NestedKey(lfiles[j]) # NestedKey(lfiles[i])
    /\ lfiles[i].Data.kind = "archive"
    /\ \E k \in 1..Len(lfiles[i].Data.files) :
          /\ lfiles[i].Data.files[k].Name = ChartfileName
          /\ OldApi(lfiles[i].Data.files[k])

\* the classification loop of the root stops first at a Chart.yaml with an
\* old apiVersion
StopsAtOldApi ==
    \E i \in 1..Len(lfiles) :
        /\ lfiles[i].Name = ChartfileName /\ OldApi(lfiles[i])
        /\ \A j \in 1..(i - 1) :
              /\ lfiles[j].Name # ValuesTomlName
              /\ lfiles[j].Name = ChartfileName => lfiles[j].Data.kind = "meta"

UnderNested(name) ==
    /\ HasPrefix(name, ChartsPrefix)
    /\ ~StartsHidden(TrimPrefix(name, ChartsPrefix))
    /\ Len(SplitN2(TrimPrefix(name, ChartsPrefix))) = 2

SubOf(name) == SplitN2(TrimPrefix(name, ChartsPrefix))[1]
RestOf(name) == SplitN2(TrimPrefix(name, ChartsPrefix))[2]

\* a name that a chart keeps among its misc files
MiscName(name) ==
    /\ name \notin {ChartfileName, ValuesTomlName, ValuesYamlName, lenv}
    /\ ~HasPrefix(name, TemplatesPrefix) /\ ~HasPrefix(name, ChartsPrefix)

NamesOfFiles(fs) == { fs[i].Name : i \in 1..Len(fs) }

\* C19: after a successful load no file named charts/<sub>/<rest>, <sub> not
\* hidden, is among the files or the templates of the parent, such a file
\* with a misc name <rest> is among the files of a dependency under the name
\* <rest>, and the files of the parent under charts/ are .prov files directly
\* under charts/.
C19_NestedFilesRouted ==
    LoadedOk =>
        /\ \A i \in 1..Len(lfiles) :
              UnderNested(lfiles[i].Name) =>
                  /\ lfiles[i].Name \notin NamesOfFiles(lres.chart.Files)
                  /\ lfiles[i].Name \notin NamesOfFiles(lres.chart.Templates)
                  /\ MiscName(RestOf(lfiles[i].Name)) =>
                        \E d \in 1..Len(lres.chart.Dependencies) :
                            RestOf(lfiles[i].Name)
                                \in NamesOfFiles(lres.chart.Dependencies[d].Files)
        /\ \A name \in NamesOfFiles(lres.chart.Files) :
              HasPrefix(name, ChartsPrefix) =>
                  (~ContainsRune(TrimPrefix(name, ChartsPrefix), "/") /\ Ext(name) = ProvExt)

\* the same for the files under charts/<sub>/ whose extension is not .prov
C19_RoutedUnlessProv ==
    LoadedOk =>
        \A i \in 1..Len(lfiles) :
            (UnderNested(lfiles[i].Name) /\ Ext(lfiles[i].Name) # ProvExt) =>
                /\ lfiles[i].Name \notin NamesOfFiles(lres.chart.Files)
                /\ lfiles[i].Name \notin NamesOfFiles(lres.chart.Templates)
                /\ MiscName(RestOf(lfiles[i].Name)) =>
                      \E d \in 1..Len(lres.chart.Dependencies) :
                          RestOf(lfiles[i].Name)
                              \in NamesOfFiles(lres.chart.Dependencies[d].Files)


\* the files the nested chart under a key of the root is loaded from
OwnFiles(key) ==
    LET fs == InputOfFrom(key, 1)
    IN  IF Ext(key) # TgzExt THEN trimmed(fs)
        ELSE IF fs[1].Data.kind = "archive" /\ fs[1].Data.err = "" THEN fs[1].Data.files
        ELSE <<>>

\* the keys its own environment file gives the nested chart under a key
OverlayKeys(key) ==
    KeysIn(SelectSeq(OwnFiles(key), LAMBDA f : f.Name = lenv), lenv)

\* the name in the last Chart.yaml of the nested chart under a key
NameOfKey(key) ==
    LET ms == SelectSeq(OwnFiles(key), LAMBDA f : f.Name = ChartfileName)
    IN  IF ms = <<>> THEN "" ELSE ms[Len(ms)].Data.Name

\* the nested chart under the key was loaded with the overlay of its own
\* environment file in its Values
HasOverlay(key) ==
    \E d \in 1..Len(lres.chart.Dependencies) :
        /\ lres.chart.Dependencies[d].Metadata.Name = NameOfKey(key)
        /\ lres.chart.Dependencies[d].Values # NilConfig
        /\ OverlayKeys(key) \subseteq DOMAIN Encoded(lres.chart.Dependencies[d].Values).m

\* C20: after a successful load with an environment file named, every nested
\* chart that holds a file of that name at its root has the overlay in its
\* Values, an inlined directory and an inner archive alike.
C20_OverlayInEveryNestedChart ==
    (LoadedOk /\ lenv # <<>>) =>
        \A key \in Elems(FirstSeen) : OverlayKeys(key) # {} => HasOverlay(key)

\* the same for the nested charts given as inlined directories
C20_InlinedOverlay ==
    (LoadedOk /\ lenv # <<>>) =>
        \A key \in Elems(FirstSeen) :
            (Ext(key) # TgzExt /\ OverlayKeys(key) # {}) => HasOverlay(key)


PathValueReturned == vpc = "done" /\ vargs.op = "PathValue"

ismapping(v) == v.t \in {"msi", "Values"}

\* the value the segments lead to from a mapping, every segment but the last
\* naming a mapping
RECURSIVE Descend(_, _)
Descend(v, segs) ==
    IF segs = <<>> THEN v
    ELSE IF ismapping(v) /\ Has(v, Head(segs)) THEN Descend(v.m[Head(segs)], Tail(segs))
    ELSE Absent

\* what the path of the call leads to
Target == Descend(vargs.v, Split(vargs.ypath, Dot))

\* C21: for a non-empty path PathValue returns a value without error exactly
\* when every segment but the last names a mapping reachable from the root
\* and the last segment is a key of that mapping whose value is not a
\* mapping, and then it returns that value; in every other case it returns
\* the no-value error and no value.
C21_PathValue ==
    (PathValueReturned /\ vargs.ypath # <<>>) =>
        IF Target # Absent /\ ~ismapping(Target)
        THEN vret = Value(Target)
        ELSE vret = NoValue(ErrNoValue)

\* no mapping of the tree is of the named type Values, as in a tree that
\* ReadValues decoded
Decoded(v) == \A k \in DOMAIN v.m : v.m[k].t # "Values"

\* the same for the trees ReadValues decodes
C21_DecodedTrees ==
    (PathValueReturned /\ vargs.ypath # <<>> /\ Decoded(vargs.v)) =>
        IF Target # Absent /\ ~ismapping(Target)
        THEN vret = Value(Target)
        ELSE vret = NoValue(ErrNoValue)


ChartMergeReturned == vpc = "done" /\ vargs.op = "chart.MergeValues"

\* the tree that the map at an address of a heap holds
RECURSIVE TreeAt(_, _)
TreeAt(h, addr) ==
    Table([k \in DOMAIN h[addr] |->
              IF h[addr][k].t = "ref" THEN TreeAt(h, h[addr][k].a) ELSE h[addr][k]])

\* C22: chart.MergeValues(a, b) returns a new map that holds the keys of a
\* and of b, the value of b for every key of b except that two mappings
\* under one key are merged recursively, and it leaves a, b and every map
\* nested in them as they were.
C22_ChartMergeValues ==
    ChartMergeReturned =>
        /\ vret.out \notin DOMAIN vargs.h
        /\ TreeAt(vret.h, vret.out)
               = DeepMerge(TreeAt(vargs.h, vargs.a), TreeAt(vargs.h, vargs.b))
        /\ \A addr \in DOMAIN vargs.h : vret.h[addr] = vargs.h[addr]

\* a and b hold mappings under one key, one of them with a mapping of its
\* own, and share a nested map; the result merged them
C22_Witness ==
    /\ ChartMergeReturned /\ vargs.b = 2
    /\ \E k \in DOMAIN vargs.h[1] \cap DOMAIN vargs.h[2] :
          /\ vargs.h[1][k] = Ref(3) /\ vargs.h[2][k] = Ref(4)
          /\ vargs.h[3] # <<>> /\ vargs.h[4] # <<>>
          /\ vret.h[vret.out][k].t = "ref"
          /\ vret.h[vret.out][k].a \notin DOMAIN vargs.h


MergeReturned == vpc = "done" /\ vargs.op = "chartutil.MergeValues"

\* C23: chartutil.MergeValues(dest, src) returns dest, written to: a key only
\* in dest keeps its value, a key absent from dest gets the value of src,
\* and for a key of both, one of the two values at least not being a
\* mapping, the value of src replaces that of dest.
C23_MergeValues ==
    MergeReturned =>
        /\ vret.out = vret.dest
        /\ DOMAIN vret.out.m = DOMAIN vargs.dest.m \cup DOMAIN vargs.src.m
        /\ \A k \in DOMAIN vargs.dest.m \ DOMAIN vargs.src.m :
              vret.out.m[k] = vargs.dest.m[k]
        /\ \A k \in DOMAIN vargs.src.m \ DOMAIN vargs.dest.m :
              vret.out.m[k] = vargs.src.m[k]
        /\ \A k \in DOMAIN vargs.src.m \cap DOMAIN vargs.dest.m :
              (~ismapping(vargs.dest.m[k]) \/ ~ismapping(vargs.src.m[k])) =>
                  vret.out.m[k] = vargs.src.m[k]

\* a scalar of src replaced a mapping of dest and a mapping of src replaced
\* a scalar of dest
C23_Witness ==
    /\ MergeReturned
    /\ DOMAIN vargs.dest.m = MergeKeys /\ DOMAIN vargs.src.m = MergeKeys
    /\ ismapping(vargs.dest.m["x"]) /\ vargs.src.m["x"] = Scalar(2)
    /\ vret.dest.m["x"] = Scalar(2)
    /\ vargs.dest.m["y"] = Scalar(1) /\ ismapping(vargs.src.m["y"])
    /\ vret.dest.m["y"] = vargs.src.m["y"]


(***************************************************************************)
(* Properties of the archive reader on an entry of a given name.           *)
(***************************************************************************)
\* the reader has read the last header of the stream
HeaderRead == hdrs # <<>> /\ nread = Len(hdrs)

\* the name of the last entry of the stream
LastName == hdrs[Len(hdrs)].Name

\* the given name, its first segment dropped and its separators made /
Dropped ==
    LET sep == IF \E i \in 1..Len(LastName) : LastName[i] = "\\" THEN "\\" ELSE "/"
        rest == Tail(Split(LastName, sep))
    IN  [i \in 1..Len(Join(rest, sep)) |->
            IF Join(rest, sep)[i] = sep THEN "/" ELSE Join(rest, sep)[i]]

\* the first rejection that matches, in the order of the checks
FirstRejection ==
    IF Dropped # <<>> /\ Dropped[1] = "/" THEN ErrAbsolute
    ELSE IF Clean(Dropped) = <<".">> THEN ErrOutside
    ELSE IF Len(Clean(Dropped)) >= 2 /\ SubSeq(Clean(Dropped), 1, 2) = <<".", ".">>
    THEN ErrParent
    ELSE IF DriveLike(Clean(Dropped)) THEN ErrDrive
    ELSE ""

PathRejections == {ErrAbsolute, ErrOutside, ErrParent, ErrDrive}

\* C24: the reader reports for an entry name, its first segment dropped and
\* its separators made /, the first rejection that matches in the order
\* absolute path, content outside the base directory, parent directory,
\* illegally named file, and none of the four when none matches; an entry
\* that is rejected ends the read with that error and no files.
C24_RejectionOrder ==
    HeaderRead =>
        /\ FirstRejection # "" =>
               (apc = "returned" /\ aerr = FirstRejection /\ files = <<>>)
        /\ FirstRejection = "" => aerr \notin PathRejections

\* the entry a..b\..\c: was rejected for the parent directory after a file
\* had been accepted
C24_Witness ==
    /\ HeaderRead /\ nread = 2 /\ apc = "returned" /\ aerr = ErrParent /\ files = <<>>
    /\ LastName = <<"a", ".", ".", "b", "\\", ".", ".", "\\", "c", ":">>


\* the first segment of the name of the last entry
FirstSegment ==
    LET sep == IF \E i \in 1..Len(LastName) : LastName[i] = "\\" THEN "\\" ELSE "/"
    IN  Split(LastName, sep)[1]

\* C25: the reader rejects an entry with the `chart yaml not in base
\* directory` error only when its cleaned path is Chart.yaml and its first
\* segment is Chart.yaml as well.
C25_ChartfileRule ==
    (HeaderRead /\ aerr = ErrChartfile) =>
        (Clean(Dropped) = ChartfileName /\ FirstSegment = ChartfileName)

\* the rule as the reader applies it: the first segment alone decides
C25_FirstSegmentDecides ==
    HeaderRead =>
        (aerr = ErrChartfile <=> (FirstRejection = "" /\ FirstSegment = ChartfileName))


\* the name is one the classification loop handles before templates/
Special(name) == name \in {ChartfileName, ValuesTomlName, ValuesYamlName, lenv}

IsTemplate(f) == ~Special(f.Name) /\ HasPrefix(f.Name, TemplatesPrefix)

\* the file is not classified otherwise, or is a .prov file under charts/
KeptAsFile(f) ==
    /\ ~Special(f.Name) /\ ~HasPrefix(f.Name, TemplatesPrefix)
    /\ HasPrefix(f.Name, ChartsPrefix) => Ext(f.Name) = ProvExt

\* C26: when the classification pass of a chart runs to its end, its
\* templates are the input files named templates/... and its files the
\* input files not classified otherwise, each as often as the input holds
\* it and in the order of the input.
C26_ClassificationKeepsOrder ==
    (LoadReturned /\ ClassificationPasses) =>
        /\ lres.chart.Templates = SelectSeq(lfiles, IsTemplate)
        /\ lres.chart.Files = SelectSeq(lfiles, KeptAsFile)

\* two different templates were classified, in the order of the input
C26_Witness ==
    /\ LoadedOk /\ Len(lres.chart.Templates) = 2
    /\ lres.chart.Templates[1].Name = TemplatesPrefix \o <<"u">>
    /\ lres.chart.Templates[2].Name = TemplatesPrefix \o <<"t">>

\* two different misc files were classified
C26_FilesInOrder ==
    /\ LoadedOk /\ Len(lres.chart.Files) = 2
    /\ lres.chart.Files[1].Name # lres.chart.Files[2].Name


\* the key is that of plain files lying directly under charts/, not hidden,
\* with no .prov and no .tgz extension
PlainDirect(key) ==
    /\ Ext(key) \notin {ProvExt, TgzExt}
    /\ ~StartsHidden(key)
    /\ \A i \in 1..Len(lfiles) :
          NestedKey(lfiles[i]) = key =>
              (lfiles[i].Name = ChartsPrefix \o key /\ lfiles[i].Data.kind = "bytes")

\* C27: a chart that is sound but for plain files directly under charts/
\* loads, and the plain files give it no dependency.
C27_PlainFileIgnored ==
    (LoadReturned /\ RootSound /\ FirstSeen # <<>>
         /\ \A key \in Elems(FirstSeen) : PlainDirect(key)) =>
        (lres.err = NoError /\ lres.chart.Dependencies = <<>>)


(***************************************************************************)
(* Properties of the coalescer without overrides.                          *)
(***************************************************************************)
\* C28: CoalesceValues with a nil config returns what it returns with a
\* config whose text is empty, the defaults of the root chart included.
C28_NilAsEmpty ==
    cpc = "nil" => res2 = res

\* the two calls differ by the defaults of the root chart alone
C28_DependenciesAlike ==
    (cpc = "nil" /\ (chrt.values.isnil \/ chrt.values.Raw = EmptyText)) => res2 = res

\* the calls differ for a root chart with defaults that parse
C28_DefaultsDropped ==
    (cpc = "nil" /\ HasDefaults(chrt) /\ res.status = "ok" /\ res2.status = "ok") =>
        res2 = res


(***************************************************************************)
(* Properties of the chart tree: Root() and Parent().                      *)
(***************************************************************************)
\* the charts reached from ch through at most n steps of Parent()
RECURSIVE ParentsUpTo(_, _)
ParentsUpTo(ch, n) ==
    IF n = 0 \/ IsRoot(ch) THEN {}
    ELSE {ParentOf(ch)} \cup ParentsUpTo(ParentOf(ch), n - 1)
ParentChain(ch) == ParentsUpTo(ch, Cardinality(Charts))

\* C29: after any sequence of AddDependency and SetDependencies calls Root()
\* of any chart terminates and returns a chart for which IsRoot() holds and
\* that is the chart itself or one reached from it over Parent().
C29_RootTerminates ==
    \A c \in Charts :
        /\ Root(c) # StackOverflow
        /\ Root(c) \in Charts /\ IsRoot(Root(c))
        /\ Root(c) \in {c} \cup ParentChain(c)

\* the same where no chart is reached from itself over Parent()
C29_RootWithoutCycle ==
    \A c \in Charts :
        (\A d \in {c} \cup ParentChain(c) : d \notin ParentChain(d)) =>
            /\ Root(c) \in Charts /\ IsRoot(Root(c))
            /\ Root(c) \in {c} \cup ParentChain(c)

\* C30: after any sequence of AddDependency and SetDependencies calls every
\* chart whose Parent() is a chart p stands in p.Dependencies(); a chart
\* that SetDependencies dropped from p is a root again.
C30_ParentHoldsChild ==
    \A d \in Charts :
        ~IsRoot(d) => d \in Elems(Dependencies(ParentOf(d)))


=============================================================================
